---- MODULE Spec2Model ----
(***************************************************************************)
(* Model of src/actions/axis.c of sc-controller: the AxisAction binding    *)
(* (keywords axis, raxis, hatup, hatdown, hatleft, hatright), its          *)
(* constructor, its value transforms and its introspection calls.          *)
(*                                                                         *)
(* Numbers.  AxisValue and the parameters are integers.  The float field   *)
(* `scale` is a dyadic rational <<num, den>>, den a power of two, so that   *)
(* raw*scale and the subtraction of the domain minimum are exact in the C   *)
(* code.  The division, the product and the sum that follow are IEEE-754    *)
(* double operations, each rounding to nearest (ties to even); Remap        *)
(* follows the three roundings.  All quantities stay below 2^31, which      *)
(* holds for 16-bit raw values and |scale| <= 16384.                        *)
(***************************************************************************)
EXTENDS Integers, Sequences, FiniteSets

VARIABLES
    ax,      \* the AxisAction the constructor returned, or NoAction
    result,  \* what axis_constructor returned: "none" before the call
    heap,    \* allocations made by axis_constructor that are still live
    hist,    \* the set_axis calls made since ax last changed, oldest first
    built,   \* the AxisAction as it was when the constructor returned
    sens,    \* x of the most recent set_sensitivity, or Never
    args     \* keyword and params of the most recent axis_constructor call

vars == <<ax, result, heap, hist, built, sens, args>>

----------------------------------------------------------------------------
(* Constants of the headers axis.c includes.                                *)

STICK_PAD_MIN == -32768
STICK_PAD_MAX == 32767
TRIGGER_MIN == 0
TRIGGER_MAX == 255

ABS_X == 0
ABS_Z == 2
ABS_RZ == 5
ABS_HAT0X == 16
ABS_HAT0Y == 17
ABS_CNT == 64

\* "i16" of the parameter signature: a 16-bit signed integer.
INT16_MIN == -32768
INT16_MAX == 32767

KW_AXIS == "axis"
KW_RAXIS == "raxis"
KW_HATUP == "hatup"
KW_HATDOWN == "hatdown"
KW_HATLEFT == "hatleft"
KW_HATRIGHT == "hatright"

Keywords == {KW_AXIS, KW_RAXIS, KW_HATUP, KW_HATDOWN, KW_HATLEFT, KW_HATRIGHT}
HatKeywords == {KW_HATUP, KW_HATDOWN, KW_HATLEFT, KW_HATRIGHT}

NoAction == [keyword |-> "none"]
Never == <<0, 0>>
NoArgs == [keyword |-> "none", params |-> <<>>]

----------------------------------------------------------------------------
(* Bounds and enumerated inputs.                                            *)

\* longest parameter list handed to the constructor
MaxParams == 4
\* number of set_axis calls kept in hist (the most recent ones)
HistLen == 2

\* first parameter: a stick axis, both trigger axes, a hat axis, and one id
\* no axis has
AxisIdInputs == {ABS_X, ABS_Z, ABS_RZ, ABS_HAT0X, ABS_CNT}
\* second and third parameter
LoInputs == {STICK_PAD_MIN, 0, 40000}
HiInputs == {51}
\* raw stick values and trigger positions; 155/255 is not a double and
\* 155 * 51 is a multiple of 255
RawInputs == {STICK_PAD_MIN, 0, STICK_PAD_MAX}
PosInputs == {155, TRIGGER_MAX}
OldPosInputs == {TRIGGER_MIN, TRIGGER_MAX}
\* scales set by set_sensitivity: -1, 0, 1/2, and one large enough to leave
\* the AxisValue range (1 is the scale of construction)
ScaleInputs == {<<-1, 1>>, <<0, 1>>, <<1, 2>>, <<16384, 1>>}
\* the <<y, z>> of set_sensitivity
UnusedScaleInputs == {<<<<0, 1>>, <<2, 1>>>>, <<<<2, 1>>, <<0, 1>>>>}
PropertyNames == {"sensitivity", "axis", "id", "nonexistent"}

ParamLists ==
    {<<>>}
    \cup {<<a>> : a \in AxisIdInputs}
    \cup {<<a, lo>> : a \in AxisIdInputs, lo \in LoInputs}
    \cup {<<a, lo, hi>> : a \in AxisIdInputs, lo \in LoInputs, hi \in HiInputs}
    \cup {[i \in 1..n |-> IF i = 1 THEN ABS_X ELSE 0] : n \in 4..MaxParams}

----------------------------------------------------------------------------
(* Arithmetic helpers.                                                      *)

Abs(x) == IF x < 0 THEN -x ELSE x
Sign(x) == IF x < 0 THEN -1 ELSE IF x > 0 THEN 1 ELSE 0
Min2(a, b) == IF a < b THEN a ELSE b
Max2(a, b) == IF a > b THEN a ELSE b

\* <<q, r>> with a*b = q*c + r and 0 <= r < c, for a, b >= 0 and c > 0,
\* computed by doubling so that no intermediate product is formed.
RECURSIVE MulDiv(_, _, _)
MulDiv(a, b, c) ==
    IF b = 0 THEN <<0, 0>>
    ELSE LET h == MulDiv(a, b \div 2, c)
             odd == b % 2
             rr == 2 * h[2] + odd * (a % c)
         IN <<2 * h[1] + odd * (a \div c) + (rr \div c), rr % c>>

RECURSIVE Pow2(_)
Pow2(k) == IF k = 0 THEN 1 ELSE 2 * Pow2(k - 1)

\* the binary exponent of n/dn: the e with 2^e <= n/dn < 2^(e+1), n, dn > 0
RECURSIVE Exponent(_, _)
Exponent(n, dn) ==
    IF n < dn THEN Exponent(2 * n, dn) - 1
    ELSE IF n \div 2 >= dn THEN Exponent(n \div 2, dn) + 1
    ELSE 0

IsPow2(n) == n = Pow2(Exponent(n, 1))

\* (r * 2^n) % c for 0 <= r < c < 2^16, eight bits at a time
RECURSIVE ShiftMod(_, _, _)
ShiftMod(r, n, c) ==
    IF n = 0 THEN r % c
    ELSE IF n >= 8 THEN ShiftMod((256 * r) % c, n - 8, c)
    ELSE ShiftMod((2 * r) % c, n - 1, c)

\* x = <<i, f>> stands for i + f/c with 0 <= f < c: x > n
Above(x, n) == x[1] > n \/ (x[1] = n /\ x[2] > 0)

----------------------------------------------------------------------------
(* scc_param_checker_check with the signature "xi16?i16?": one axis id,    *)
(* then up to two optional 16-bit integers.                                 *)

IsAxisId(v) == v >= 0 /\ v < ABS_CNT
IsInt16(v) == v >= INT16_MIN /\ v <= INT16_MAX

scc_param_checker_check(params) ==
    /\ Len(params) >= 1
    /\ Len(params) <= 3
    /\ IsAxisId(params[1])
    /\ \A i \in 2..Len(params) : IsInt16(params[i])

----------------------------------------------------------------------------
(* apply_axis_params: the fields the constructor derives from the keyword  *)
(* and the copied parameter list, and whether it accepts them.              *)

IsHat(keyword) == keyword \in HatKeywords

\* HatMax with the two directions exchanged
HatMax_swapped(keyword) ==
    IF keyword \in {KW_HATDOWN, KW_HATRIGHT} THEN STICK_PAD_MIN + 1
    ELSE STICK_PAD_MAX - 1

\* HatMax stepping one unit outwards instead of inwards
HatMax_outwards(keyword) ==
    IF keyword \in {KW_HATDOWN, KW_HATRIGHT} THEN STICK_PAD_MAX + 1
    ELSE STICK_PAD_MIN - 1

\* lines 59-62: resting value and pressed extreme of a hat keyword
HatMax(keyword) ==
    IF keyword \in {KW_HATDOWN, KW_HATRIGHT} THEN STICK_PAD_MAX - 1
    ELSE STICK_PAD_MIN + 1

\* lines 72-78: default output range of axis / raxis
DefaultMin(axis) == IF axis \in {ABS_Z, ABS_RZ} THEN TRIGGER_MIN ELSE STICK_PAD_MIN
DefaultMax(axis) == IF axis \in {ABS_Z, ABS_RZ} THEN TRIGGER_MAX ELSE STICK_PAD_MAX

\* lines 79-80: the optional overrides
OverrideMin(params) == IF Len(params) > 1 THEN params[2] ELSE DefaultMin(params[1])
OverrideMax(params) == IF Len(params) > 2 THEN params[3] ELSE DefaultMax(params[1])

\* PlainMin without the swap of raxis
PlainMin_noswap(keyword, params) == OverrideMin(params)

\* lines 82-89: raxis swaps min and max after the overrides
PlainMin(keyword, params) ==
    IF keyword = KW_RAXIS THEN OverrideMax(params) ELSE OverrideMin(params)
PlainMax(keyword, params) ==
    IF keyword = KW_RAXIS THEN OverrideMin(params) ELSE OverrideMax(params)

\* apply_axis_params_ok without the arity test of the hat branch
apply_axis_params_ok_nocheck(keyword, params) == TRUE

\* the return value: false only for a hat keyword with other than 1 parameter
apply_axis_params_ok(keyword, params) ==
    IF IsHat(keyword) THEN Len(params) = 1 ELSE TRUE

\* the AxisAction after apply_axis_params and line 176
apply_axis_params(keyword, params) ==
    [ keyword |-> keyword,
      params  |-> params,
      axis    |-> params[1],
      scale   |-> <<1, 1>>,
      min     |-> IF IsHat(keyword) THEN 0 ELSE PlainMin(keyword, params),
      max     |-> IF IsHat(keyword) THEN HatMax(keyword) ELSE PlainMax(keyword, params) ]

----------------------------------------------------------------------------
(* clamp_axis: value clamped to the range allowed for the axis.             *)

\* clamp_axis without the DPAD case
clamp_axis_nohat(axis, value) ==
    IF axis \in {ABS_Z, ABS_RZ}
        THEN Max2(TRIGGER_MIN, Min2(TRIGGER_MAX, value))
    ELSE Max2(STICK_PAD_MIN, Min2(STICK_PAD_MAX, value))

clamp_axis(axis, value) ==
    IF axis \in {ABS_Z, ABS_RZ}
        THEN Max2(TRIGGER_MIN, Min2(TRIGGER_MAX, value))
    ELSE IF axis \in {ABS_HAT0X, ABS_HAT0Y}
        THEN Max2(-1, Min2(1, value))
    ELSE Max2(STICK_PAD_MIN, Min2(STICK_PAD_MAX, value))

----------------------------------------------------------------------------
(* The remap of axis() and trigger(), lines 125-126 and 135-136:            *)
(*   p = (value*scale - dmin) / (dmax - dmin);  p = p*(max - min) + min     *)
(* in double arithmetic.  With A = |value*scale - dmin| (times den),        *)
(* W = dmax - dmin and d = max - min the exact value is min +- A*|d|/(den*W) *)
(* and the three roundings move it by less than 2^-20.  An exact value with *)
(* a fraction is at least 1/(den*W) away from every integer, so the double  *)
(* has its integer part.  An exact value that is an integer m is hit        *)
(* exactly when A/W is a double; otherwise the roundings can leave the      *)
(* double just inside m, and its integer part is then one closer to zero.   *)
(* Remap yields <<F, r, D>>, F an integer and 0 <= r < D, with the integer  *)
(* part of F + r/D that of the double.                                      *)

\* line 125, the division: the double nearest A/W, for W odd and A not a
\* multiple of W, is A/W + sigma*(rho/W)*2^(e-52) with e the exponent of
\* A/W; the result is <<sigma, rho, e>>, 0 < rho < W/2
DivisionError(A, W) ==
    LET e   == Exponent(A, W)
        rem == ShiftMod(A % W, 52 - e, W)
    IN  IF 2 * rem > W THEN <<1, W - rem, e>> ELSE <<-1, rem, e>>

\* line 126, the product: the double nearest p*|d|, Q = A*|d|/W being an
\* integer, is Q + eta*u/2 with u = 2^(e_Q - 52) the spacing of the doubles
\* above Q; below a power of two the spacing is u/2.  p*|d| is
\* Q + sigma*t*u with t = rho*|d| / (W*2^k), k = e_Q - e, and x is 4*t*2^k.
\* A tie goes to Q, whose significand is even.
ProductError(A, ad, W, Q) ==
    LET de   == DivisionError(A, W)
        k    == Exponent(Q, 1) - de[3]
        mr   == MulDiv(de[2], ad, W)
        x    == <<4 * mr[1] + ((4 * mr[2]) \div W), (4 * mr[2]) % W>>
        unit == Pow2(k)
    IN  IF de[1] > 0 THEN (IF Above(x, 2 * unit) THEN 2 ELSE 0)
        ELSE IF ~IsPow2(Q) THEN (IF Above(x, 2 * unit) THEN -2 ELSE 0)
        ELSE IF ~Above(x, unit) THEN 0
        ELSE IF x[1] < 3 * unit THEN -1
        ELSE -2

\* line 126, the sum: s*(the product)/den + min against the integer
\* m = s*Q/den + min, m # 0.  The double is strictly between m and 0 when
\* the error of the product points to 0 and exceeds half the spacing of the
\* doubles on that side of m (a tie goes to m).
RoundsTowardZero(A, ad, W, den, s, q, m) ==
    LET Q   == q * den
        eta == ProductError(A, ad, W, Q)
    IN  /\ eta # 0
        /\ s * Sign(eta) = -Sign(m)
        /\ Exponent(Q, 1) - 1 + (IF Abs(eta) = 2 THEN 1 ELSE 0) - Exponent(den, 1)
              >= Exponent(Abs(m), 1) - (IF IsPow2(Abs(m)) THEN 1 ELSE 0)

\* Remap with the span taken as min - max
Remap_reversed(value, scale, lo, hi, dmin, dmax) ==
    LET W  == dmax - dmin
        N  == value * scale[1] - dmin * scale[2]
        D  == scale[2] * W
        d  == lo - hi
        s  == Sign(N) * Sign(d)
        qr == MulDiv(Abs(N), Abs(d), D)
        m  == lo + s * qr[1]
    IN  IF qr[2] # 0
          THEN IF s >= 0 THEN <<lo + qr[1], qr[2], D>>
               ELSE <<lo - qr[1] - 1, D - qr[2], D>>
        ELSE IF s = 0 \/ Abs(N) % W = 0 \/ m = 0 THEN <<m, 0, D>>
        ELSE IF ~RoundsTowardZero(Abs(N), Abs(d), W, scale[2], s, qr[1], m)
          THEN <<m, 0, D>>
        ELSE IF m > 0 THEN <<m - 1, D - 1, D>>
        ELSE <<m, 1, D>>

Remap(value, scale, lo, hi, dmin, dmax) ==
    LET W  == dmax - dmin
        N  == value * scale[1] - dmin * scale[2]
        D  == scale[2] * W
        d  == hi - lo
        s  == Sign(N) * Sign(d)
        qr == MulDiv(Abs(N), Abs(d), D)
        m  == lo + s * qr[1]
    IN  IF qr[2] # 0
          THEN IF s >= 0 THEN <<lo + qr[1], qr[2], D>>
               ELSE <<lo - qr[1] - 1, D - qr[2], D>>
        ELSE IF s = 0 \/ Abs(N) % W = 0 \/ m = 0 THEN <<m, 0, D>>
        ELSE IF ~RoundsTowardZero(Abs(N), Abs(d), W, scale[2], s, qr[1], m)
          THEN <<m, 0, D>>
        ELSE IF m > 0 THEN <<m - 1, D - 1, D>>
        ELSE <<m, 1, D>>

\* p rounded to the nearest integer, halves away from zero
RoundNearest(p) ==
    IF 2 * p[2] < p[3] THEN p[1]
    ELSE IF 2 * p[2] > p[3] THEN p[1] + 1
    ELSE IF p[1] >= 0 THEN p[1] + 1 ELSE p[1]

\* a double converted to an integer type loses its fraction (toward zero)
Truncate(p) == IF p[1] >= 0 \/ p[2] = 0 THEN p[1] ELSE p[1] + 1

\* AxisValue holds the stick range and the "i16" parameters; it is taken as
\* 16 bits wide.  A wider AxisValue converts the values that do not fit 16
\* bits to themselves, which clamp_axis maps to the same result as one of the
\* outcomes ToAxisValue gives for them.
InAxisValueRange(v) == v >= INT16_MIN /\ v <= INT16_MAX

\* ToAxisValue rounding to the nearest integer
ToAxisValue_rounded(p) ==
    LET t == RoundNearest(p)
    IN  IF InAxisValueRange(t) THEN {t}
        ELSE {INT16_MIN, INT16_MAX, 0, ((t - INT16_MIN) % 65536) + INT16_MIN}

\* (AxisValue)p, lines 127 and 137.  When the truncated value does not fit
\* AxisValue the conversion is undefined: the outcomes are then the extremes
\* of AxisValue (a saturating conversion), the low 16 bits of the truncated
\* value (a conversion through a wider integer that holds it) and 0 (the low
\* 16 bits of the "integer indefinite" 0x80000000 the conversion yields when
\* the wider integer does not hold it either).
ToAxisValue(p) ==
    LET t == Truncate(p)
    IN  IF InAxisValueRange(t) THEN {t}
        ELSE {INT16_MIN, INT16_MAX, 0, ((t - INT16_MIN) % 65536) + INT16_MIN}

\* the values axis() can hand to set_axis for one raw value
axis_values(a, value) ==
    { clamp_axis(a.axis, v) :
        v \in ToAxisValue(Remap(value, a.scale, a.min, a.max,
                                STICK_PAD_MIN, STICK_PAD_MAX)) }

\* the values trigger() can hand to set_axis for one position
trigger_values(a, pos) ==
    { clamp_axis(a.axis, v) :
        v \in ToAxisValue(Remap(pos, a.scale, a.min, a.max,
                                TRIGGER_MIN, TRIGGER_MAX)) }

button_press_value(a) == clamp_axis(a.axis, a.max)

\* button_release writing the pressed extreme
button_release_value_max(a) == clamp_axis(a.axis, a.max)

button_release_value(a) == clamp_axis(a.axis, a.min)

----------------------------------------------------------------------------
(* The state machine.                                                       *)

Init ==
    /\ ax = NoAction
    /\ result = "none"
    /\ heap = {}
    /\ hist = <<>>
    /\ built = NoAction
    /\ sens = Never
    /\ args = NoArgs

\* hist keeps the HistLen most recent set_axis calls
Push(h, e) == IF Len(h) < HistLen THEN Append(h, e) ELSE Append(Tail(h), e)

\* axis_constructor(keyword, params); mallocOk and copyOk say whether
\* malloc and scc_copy_param_list succeed
axis_constructor(keyword, params, mallocOk, copyOk) ==
    /\ result = "none"
    /\ args' = [keyword |-> keyword, params |-> params]
    /\ UNCHANGED <<hist, sens>>
    /\ IF ~scc_param_checker_check(params)
         THEN \* line 164: nothing allocated yet
              /\ result' = "ParamError"
              /\ UNCHANGED <<ax, heap, built>>
       ELSE IF ~mallocOk \/ ~copyOk
         THEN \* lines 168-172: whichever allocation succeeded is freed
              /\ result' = "OutOfMemory"
              /\ UNCHANGED <<ax, heap, built>>
       ELSE IF ~apply_axis_params_ok(keyword, params)
         THEN \* line 175: returns the error; ax and the copy are not freed
              /\ result' = "InvalidArgumentCount"
              /\ heap' = heap \cup {"AxisAction", "ParameterList"}
              /\ UNCHANGED <<ax, built>>
       ELSE   \* lines 176-184
              /\ result' = "Action"
              /\ ax' = apply_axis_params(keyword, params)
              /\ built' = ax'
              /\ heap' = heap \cup {"AxisAction", "ParameterList"}

Construct ==
    \E keyword \in Keywords, params \in ParamLists, mallocOk, copyOk \in BOOLEAN :
        axis_constructor(keyword, params, mallocOk, copyOk)

\* axis_dealloc: frees the parameter list and the AxisAction
axis_dealloc ==
    /\ result = "Action"
    /\ ax' = NoAction
    /\ result' = "none"
    /\ heap' = heap \ {"AxisAction", "ParameterList"}
    /\ hist' = <<>>
    /\ built' = NoAction
    /\ sens' = Never
    /\ args' = NoArgs

button_press ==
    /\ result = "Action"
    /\ hist' = Push(hist, [op |-> "button_press", axis |-> ax.axis,
                           out |-> button_press_value(ax)])
    /\ UNCHANGED <<ax, result, heap, built, sens, args>>

button_release ==
    /\ result = "Action"
    /\ hist' = Push(hist, [op |-> "button_release", axis |-> ax.axis,
                           out |-> button_release_value(ax)])
    /\ UNCHANGED <<ax, result, heap, built, sens, args>>

axis ==
    /\ result = "Action"
    /\ \E value \in RawInputs : \E v \in axis_values(ax, value) :
          hist' = Push(hist, [op |-> "axis", in |-> value, axis |-> ax.axis,
                              out |-> v])
    /\ UNCHANGED <<ax, result, heap, built, sens, args>>

trigger ==
    /\ result = "Action"
    /\ \E pos \in PosInputs : \E v \in trigger_values(ax, pos) :
          \E old_pos \in OldPosInputs :
             hist' = Push(hist, [op |-> "trigger", in |-> pos, axis |-> ax.axis,
                                 out |-> v])
    /\ UNCHANGED <<ax, result, heap, built, sens, args>>

\* set_sensitivity storing y
set_sensitivity_fields_y(a, x, y, z) == [a EXCEPT !.scale = y]

\* the AxisAction after set_sensitivity(a, x, y, z)
set_sensitivity_fields(a, x, y, z) == [a EXCEPT !.scale = x]

set_sensitivity ==
    /\ result = "Action"
    /\ \E x \in ScaleInputs, yz \in UnusedScaleInputs :
          /\ ax' = set_sensitivity_fields(ax, x, yz[1], yz[2])
          /\ sens' = x
    /\ hist' = <<>>
    /\ UNCHANGED <<result, heap, built, args>>

\* the Parameter get_property returns, NULL for an unknown name
get_property_value(a, name) ==
    IF name = "sensitivity" THEN [kind |-> "tuple", items |-> <<a.scale>>]
    ELSE IF name \in {"axis", "id"} THEN [kind |-> "int", items |-> <<a.axis>>]
    ELSE [kind |-> "NULL", items |-> <<>>]

\* get_property only reads the AxisAction
get_property ==
    /\ result = "Action"
    /\ \E name \in PropertyNames : get_property_value(ax, name).kind # "none"
    /\ UNCHANGED vars

\* "keyword(params)": the keyword and the retained list the serializer
\* renders; NULL when scc_param_list_to_string returns NULL (lines 41, 46)
axis_to_string_value(a, listOk) ==
    IF listOk THEN [kind |-> "string", keyword |-> a.keyword, params |-> a.params]
    ELSE [kind |-> "NULL", keyword |-> "none", params |-> <<>>]

\* axis_to_string only reads the AxisAction
axis_to_string ==
    /\ result = "Action"
    /\ \E listOk \in BOOLEAN :
          axis_to_string_value(ax, listOk).kind = IF listOk THEN "string" ELSE "NULL"
    /\ UNCHANGED vars

Next ==
    \/ Construct
    \/ axis_dealloc
    \/ button_press
    \/ button_release
    \/ axis
    \/ trigger
    \/ set_sensitivity
    \/ get_property
    \/ axis_to_string

Spec == Init /\ [][Next]_vars

----------------------------------------------------------------------------
(* The Range Table of the specification, stated apart from clamp_axis.      *)

IsTriggerAxis(a) == a = ABS_Z \/ a = ABS_RZ
IsHatAxis(a) == a = ABS_HAT0X \/ a = ABS_HAT0Y
RangeLo(a) == IF IsTriggerAxis(a) THEN TRIGGER_MIN ELSE IF IsHatAxis(a) THEN -1 ELSE STICK_PAD_MIN
RangeHi(a) == IF IsTriggerAxis(a) THEN TRIGGER_MAX ELSE IF IsHatAxis(a) THEN 1 ELSE STICK_PAD_MAX
InRange(a, v) == v >= RangeLo(a) /\ v <= RangeHi(a)
Clamped(a, v) == IF v < RangeLo(a) THEN RangeLo(a) ELSE IF v > RangeHi(a) THEN RangeHi(a) ELSE v

Constructed == result = "Action"
ErrorResults == {"ParamError", "OutOfMemory", "InvalidArgumentCount"}
One == <<1, 1>>

\* the remapped value of a recorded axis or trigger call under the current ax
RemapOf(e) ==
    IF e.op = "axis"
        THEN Remap(e.in, ax.scale, ax.min, ax.max, STICK_PAD_MIN, STICK_PAD_MAX)
        ELSE Remap(e.in, ax.scale, ax.min, ax.max, TRIGGER_MIN, TRIGGER_MAX)
Fits(e) == InAxisValueRange(Truncate(RemapOf(e)))

----------------------------------------------------------------------------
(* C1: every value that button_press, button_release, axis or trigger      *)
(* hands to set_axis lies inside the hardware range of the Binding's axis  *)
(* kind, whatever min, max and scale are.                                   *)
C1_WritesInRange ==
    \A i \in DOMAIN hist : InRange(hist[i].axis, hist[i].out)

\* an axis update on a hat axis whose scaled value left the AxisValue range
C1_Witness ==
    /\ Constructed
    /\ ax.axis = ABS_HAT0X
    /\ ax.scale = <<16384, 1>>
    /\ \E i \in DOMAIN hist : hist[i].op = "axis" /\ ~Fits(hist[i])

(* C2 as claimed: a constructed Binding has min and max inside the Range   *)
(* Table bounds of its axis kind.                                           *)
C2_Original ==
    Constructed => InRange(ax.axis, ax.min) /\ InRange(ax.axis, ax.max)

(* C2 amended: a constructed Binding has min and max inside the stick      *)
(* range STICK_PAD_MIN..STICK_PAD_MAX whatever its axis kind; the bound of  *)
(* the axis kind is applied when a value is written, not at construction.   *)
C2_MinMaxInStickRange ==
    Constructed =>
        /\ ax.min >= STICK_PAD_MIN /\ ax.min <= STICK_PAD_MAX
        /\ ax.max >= STICK_PAD_MIN /\ ax.max <= STICK_PAD_MAX

\* a trigger Binding whose min is below the trigger range
C2_Witness ==
    Constructed /\ ax.axis = ABS_Z /\ ax.min = STICK_PAD_MIN

(* C3 as claimed: press then release writes exactly max, then exactly min. *)
C3_Original ==
    \A i \in DOMAIN hist :
        (i + 1 \in DOMAIN hist /\ hist[i].op = "button_press"
            /\ hist[i + 1].op = "button_release")
        => /\ hist[i].out = ax.max
           /\ hist[i + 1].out = ax.min
           /\ InRange(ax.axis, hist[i].out)
           /\ InRange(ax.axis, hist[i + 1].out)

(* C3 amended: press then release writes, on the Binding's axis, max       *)
(* clamped to the hardware range of the axis and then min clamped to it;    *)
(* the values are exactly max and min when those lie inside that range.     *)
C3_PressReleaseClamped ==
    \A i \in DOMAIN hist :
        (i + 1 \in DOMAIN hist /\ hist[i].op = "button_press"
            /\ hist[i + 1].op = "button_release")
        => /\ hist[i].axis = ax.axis
           /\ hist[i + 1].axis = ax.axis
           /\ hist[i].out = Clamped(ax.axis, ax.max)
           /\ hist[i + 1].out = Clamped(ax.axis, ax.min)

\* press then release on a Binding whose max is outside its hardware range
C3_Witness ==
    /\ Constructed
    /\ Len(hist) = 2
    /\ hist[1].op = "button_press"
    /\ hist[2].op = "button_release"
    /\ ~InRange(ax.axis, ax.max)
    /\ hist[1].out # hist[2].out

(* C4 as claimed: hatup and hatleft yield max = STICK_PAD_MAX - 1, hatdown *)
(* and hatright yield max = STICK_PAD_MIN + 1, with min = 0 and scale = 1.  *)
C4_Original ==
    (Constructed /\ IsHat(built.keyword)) =>
        /\ built.min = 0
        /\ built.scale = One
        /\ built.keyword \in {KW_HATUP, KW_HATLEFT} => built.max = STICK_PAD_MAX - 1
        /\ built.keyword \in {KW_HATDOWN, KW_HATRIGHT} => built.max = STICK_PAD_MIN + 1

(* C4 amended: hatup and hatleft yield min = 0 and max = STICK_PAD_MIN + 1, *)
(* hatdown and hatright yield min = 0 and max = STICK_PAD_MAX - 1, and      *)
(* scale is 1 in all four cases.                                            *)
C4_HatRange ==
    (Constructed /\ IsHat(built.keyword)) =>
        /\ built.min = 0
        /\ built.scale = One
        /\ built.keyword \in {KW_HATUP, KW_HATLEFT} => built.max = STICK_PAD_MIN + 1
        /\ built.keyword \in {KW_HATDOWN, KW_HATRIGHT} => built.max = STICK_PAD_MAX - 1

\* a Binding built by hatup
C4_Witness ==
    Constructed /\ built.keyword = KW_HATUP /\ built.max < 0

(* C5: the Binding built by raxis has min equal to the max, and max equal  *)
(* to the min, of the Binding axis builds from the same parameters; with    *)
(* three parameters min is the third and max the second.                    *)
C5_RaxisSwaps ==
    (Constructed /\ built.keyword = KW_RAXIS) =>
        /\ built.min = apply_axis_params(KW_AXIS, built.params).max
        /\ built.max = apply_axis_params(KW_AXIS, built.params).min
        /\ Len(built.params) = 3 =>
              built.min = built.params[3] /\ built.max = built.params[2]

\* raxis built with one override, on a trigger axis
C5_Witness ==
    /\ Constructed
    /\ built.keyword = KW_RAXIS
    /\ Len(built.params) = 2
    /\ built.axis = ABS_RZ
    /\ built.min = TRIGGER_MAX
    /\ built.max = built.params[2]

(* C6 as claimed: a hat keyword with 0 or with 2 parameters returns the    *)
(* InvalidArgumentCountError and no Binding; axis with 4 parameters is      *)
(* rejected with a ParameterError before anything is allocated.             *)
C6_Original ==
    /\ (result # "none" /\ IsHat(args.keyword) /\ Len(args.params) \in {0, 2})
          => result = "InvalidArgumentCount" /\ ax = NoAction
    /\ (result # "none" /\ args.keyword = KW_AXIS /\ Len(args.params) = 4)
          => result = "ParamError" /\ heap = {}

(* C6 amended: a hat keyword with 2 parameters the checker accepts returns *)
(* the InvalidArgumentCountError and no Binding, unless an allocation fails *)
(* first (OutOfMemoryError); a hat keyword with 0 parameters is rejected,   *)
(* like axis with 4 parameters, by the parameter checker with a             *)
(* ParameterError before anything is allocated.                             *)
C6_ArityErrors ==
    /\ (result # "none" /\ IsHat(args.keyword) /\ Len(args.params) = 2
            /\ scc_param_checker_check(args.params))
          => result \in {"InvalidArgumentCount", "OutOfMemory"} /\ ax = NoAction
    /\ (result # "none" /\ IsHat(args.keyword) /\ Len(args.params) = 0)
          => result = "ParamError" /\ heap = {} /\ ax = NoAction
    /\ (result # "none" /\ args.keyword = KW_AXIS /\ Len(args.params) = 4)
          => result = "ParamError" /\ heap = {} /\ ax = NoAction

\* hatup with two parameters was refused for its arity
C6_Witness ==
    /\ result = "InvalidArgumentCount"
    /\ args.keyword = KW_HATUP
    /\ Len(args.params) = 2

(* C7: after construction axis, keyword, min, max and the retained         *)
(* parameter list keep their values of construction; scale is 1 while       *)
(* set_sensitivity was never called and otherwise the x of the most recent  *)
(* call.                                                                    *)
C7_Frame ==
    Constructed =>
        /\ ax.axis = built.axis
        /\ ax.keyword = built.keyword
        /\ ax.min = built.min
        /\ ax.max = built.max
        /\ ax.params = built.params
        /\ ax.scale = IF sens = Never THEN One ELSE sens

\* writes made after the scale was changed
C7_Witness ==
    /\ Constructed
    /\ sens = <<-1, 1>>
    /\ Len(hist) = 2
    /\ hist[1].op = "trigger"
    /\ hist[2].op = "button_press"

(* C8 as claimed: for raw1 < raw2 the value the axis update writes for     *)
(* raw1 is <= the one for raw2 when min < max, and >= it when min > max.    *)
(* Stated for the updates whose conversion to AxisValue is defined, so that *)
(* a violation does not rest on an undefined conversion.                    *)
C8_Original ==
    \A i, j \in DOMAIN hist :
        (/\ hist[i].op = "axis" /\ hist[j].op = "axis" /\ hist[i].in < hist[j].in
         /\ Fits(hist[i]) /\ Fits(hist[j]))
        => /\ ax.min < ax.max => hist[i].out <= hist[j].out
           /\ ax.min > ax.max => hist[i].out >= hist[j].out

(* C8 amended: the same, provided scale >= 0 and both remapped values fit  *)
(* AxisValue; a negative scale reverses the direction.                      *)
C8_MonotonicForScaleGeqZero ==
    \A i, j \in DOMAIN hist :
        (/\ hist[i].op = "axis" /\ hist[j].op = "axis" /\ hist[i].in < hist[j].in
         /\ ax.scale[1] >= 0 /\ Fits(hist[i]) /\ Fits(hist[j]))
        => /\ ax.min < ax.max => hist[i].out <= hist[j].out
           /\ ax.min > ax.max => hist[i].out >= hist[j].out

\* two axis updates with different outputs, the larger raw value first
C8_Witness ==
    /\ Constructed
    /\ Len(hist) = 2
    /\ hist[1].op = "axis" /\ hist[2].op = "axis"
    /\ hist[1].in > hist[2].in
    /\ ax.scale = <<1, 2>>
    /\ ax.min > ax.max
    /\ hist[1].out < hist[2].out

(* C9: every error return of the constructor leaves the set of live        *)
(* allocations as it was before the call.                                   *)
C9_ErrorPathsReleaseAll ==
    result \in ErrorResults => heap = {}

(* C10 as claimed: the axis and trigger updates write the remapped value   *)
(* rounded to the nearest integer and then clamped.  Stated for the updates *)
(* whose conversion to AxisValue is defined.                                *)
C10_Original ==
    \A i \in DOMAIN hist :
        (hist[i].op \in {"axis", "trigger"} /\ Fits(hist[i]))
        => hist[i].out = Clamped(ax.axis, RoundNearest(RemapOf(hist[i])))

(* C10 amended: the axis update writes clamp(axis, trunc(p')) with          *)
(* p = (raw*scale - STICK_PAD_MIN) / (STICK_PAD_MAX - STICK_PAD_MIN) and    *)
(* p' = p*(max - min) + min, both evaluated in double arithmetic in this    *)
(* order, the fraction of p' dropped (rounding toward zero), whenever       *)
(* trunc(p') fits AxisValue; the trigger update writes the same over        *)
(* TRIGGER_MIN..TRIGGER_MAX whatever old_pos is.  With scale 1 a raw        *)
(* STICK_PAD_MIN writes clamp(axis, min) and a raw STICK_PAD_MAX writes     *)
(* clamp(axis, max).                                                        *)
C10_TruncatedThenClamped ==
    \A i \in DOMAIN hist :
        /\ (hist[i].op \in {"axis", "trigger"} /\ Fits(hist[i]))
              => hist[i].out = Clamped(ax.axis, Truncate(RemapOf(hist[i])))
        /\ (hist[i].op = "axis" /\ ax.scale = One /\ hist[i].in = STICK_PAD_MIN)
              => hist[i].out = Clamped(ax.axis, ax.min)
        /\ (hist[i].op = "axis" /\ ax.scale = One /\ hist[i].in = STICK_PAD_MAX)
              => hist[i].out = Clamped(ax.axis, ax.max)

\* an axis update whose remapped value has a fraction of one half or more,
\* and a trigger update whose double is just below the integer 155*51/255
C10_Witness ==
    /\ Constructed
    /\ \E i \in DOMAIN hist :
          /\ hist[i].op = "axis"
          /\ Fits(hist[i])
          /\ Truncate(RemapOf(hist[i])) # RoundNearest(RemapOf(hist[i]))
          /\ InRange(ax.axis, RoundNearest(RemapOf(hist[i])))
          /\ InRange(ax.axis, Truncate(RemapOf(hist[i])))
    /\ \E j \in DOMAIN hist :
          /\ hist[j].op = "trigger"
          /\ hist[j].in = 155
          /\ ax.scale = One /\ ax.min = 0 /\ ax.max = 51
          /\ hist[j].out = 30

====
